---- MODULE Spec2Model ----
(***************************************************************************)
(* Bangumi -> MySQL pipeline: the paged collection fetcher                 *)
(* (bangumi_data_ingestion.py) and the incremental reconciler              *)
(* (data_loading_to_mysql_database.py).                                    *)
(*                                                                         *)
(* Durations are in milliseconds.  all_items is kept as the sequence of    *)
(* pages that were appended to it: a page [off, n] stands for the n items  *)
(* the source returned for the request at offset off.                      *)
(***************************************************************************)
EXTENDS Integers, Sequences, FiniteSets, TLC

\* ------------------------------------------------------------ bounds
\* Totals and source sizes range over 0 .. MaxPages pages (plus or minus one item).
MaxPages == 3
\* How many of the enumerated (subject_type, collection_type) pairs a run covers.
MaxCategories == 2
\* Most rows of a table of the reconciler's inputs.
MaxRows == 2
\* Consecutive runs of the loader.
MaxRuns == 2
\* Rows of the analytics frame handed to the Notion insertion.
MaxNotionRows == 4
\* Items of one fetched category.
MaxItems == 2

\* ------------------------------------------------------------ program constants
LIMIT == 100
MAX_RETRIES == 3
\* RETRY_BACKOFF = 1.0 s
RETRY_BACKOFF == 1000
\* time.sleep(10) on HTTP 429
RATE_LIMIT_SLEEP == 10000
\* time.sleep(0.5) between pages
PAGE_DELAY == 500
max_consecutive_failures == 3

SUBJECT_TYPES == <<1, 2, 3>>
COLLECTION_TYPES == <<1, 2, 3, 4>>

\* The (st, ct) pairs in the order of the nested loops "for st ... for ct ...".
CategoryKey(k) ==
    <<SUBJECT_TYPES[((k - 1) \div Len(COLLECTION_TYPES)) + 1],
      COLLECTION_TYPES[((k - 1) % Len(COLLECTION_TYPES)) + 1]>>

Min(a, b) == IF a <= b THEN a ELSE b
Max(a, b) == IF a >= b THEN a ELSE b

NumCategories == Min(MaxCategories, Len(SUBJECT_TYPES) * Len(COLLECTION_TYPES))
Cats == 1 .. NumCategories

\* Item counts around the page boundaries.
Sizes == {p * LIMIT + d : p \in 0 .. MaxPages, d \in {0, 1, LIMIT - 1}}

RECURSIVE Pow2(_)
Pow2(n) == IF n = 0 THEN 1 ELSE 2 * Pow2(n - 1)

\* @dataclass CategoryStats
CategoryStats(total) ==
    [total_items |-> total, fetched_items |-> 0, pages_fetched |-> 0]

\* ------------------------------------------------------------ exceptions
\* What a request can raise: requests' ConnectionError, Timeout, HTTPError
\* (raise_for_status), and a non-requests error of resp.json()/payload.get.
ExcClasses == {"ConnectionError", "Timeout", "HTTPError", "ValueError"}

\* Python's class hierarchy, as far as the except clauses test it.
IsInstance_HttpIsConnection(e, base) ==
    \/ e = base
    \/ base = "Exception"
    \/ base = "RequestException" /\ e \in {"ConnectionError", "Timeout", "HTTPError"}
    \/ base = "ConnectionError" /\ e = "HTTPError"

IsInstance(e, base) ==
    \/ e = base
    \/ base = "Exception"
    \/ base = "RequestException" /\ e \in {"ConnectionError", "Timeout", "HTTPError"}

\* The first except clause, in source order, that catches e ("none": it propagates).
RECURSIVE FirstHandler(_, _)
FirstHandler(e, clauses) ==
    IF clauses = <<>> THEN "none"
    ELSE IF IsInstance(e, Head(clauses)) THEN Head(clauses)
    ELSE FirstHandler(e, Tail(clauses))

\* except clauses of fetch_single_category
PageHandlers_RetriedOnly == <<"ConnectionError", "Timeout">>

PageHandlers == <<"ConnectionError", "Timeout", "RequestException", "Exception">>
\* except clauses of fetch_category_total
TotalHandlers_NoCatchAll == <<"ConnectionError", "Timeout">>

TotalHandlers == <<"ConnectionError", "Timeout", "Exception">>

VARIABLES
    pc,                    \* control position of the ingestion code
    cat,                   \* index of the category being resolved / fetched
    all_stats,             \* all_stats[(st, ct)]: the CategoryStats of each category
    available,             \* source API: items the source holds per category
    offset,
    attempt,               \* "for attempt in range(MAX_RETRIES)"
    success,
    items,                 \* len(items) of the last parsed page (-1: unbound)
    consecutive_failures,
    all_items,
    page_log,              \* history: outcome and sleep of each attempt of this page
    page_results,          \* history: offset and result of each finished page
    had_failure,           \* history: some request of this fetch did not succeed
    n_ok,                  \* history: successful page requests of this fetch
    page_requested,        \* history: categories a page request was issued for
    t_attempt,             \* fetch_category_total: "for attempt in range(MAX_RETRIES)"
    t_log,                 \* history: outcome and sleep of each total request
    t_ret,                 \* fetch_category_total: returned value (-1: not returned)
    srv_total,             \* source API: the "total" field it reports per category
    raw_rows,              \* collect_all_data: the pages of rows built, per category
    _session,              \* the global session handle (0: None, k: the k-th session created)
    session,               \* the "session" local of the running function (0: unbound)
    sessions_created,      \* history: calls of create_session that returned
    closed,                \* history: the sessions closed
    req_sessions,          \* history: the session of each request, and whether it was open
    main_exit,             \* how main() was left ("": it has not been)
    fact_view_logs,        \* MySQL: the full snapshot table (source_table)
    fact_view_logs_incremental,  \* MySQL: the incremental table (target_table)
    target_exists,         \* MySQL: whether the incremental table exists
    df_target,             \* implement_incremental_load: the target as read
    insert_ids,
    delete_ids,
    common_ids,
    df_combined,           \* the frame written back, each row tagged with its origin
    rpc,                   \* control position of the loader and of implement_incremental_load
    collection,            \* source API: the category each subject is currently kept in (0: none)
    analytics_rows,        \* collect_all_data: one row per item, by subject_id
    next_cat,              \* collect_all_data: index of the next category of the loop
    run,                   \* number of the current run of the loader
    fact_view_logs_raw,    \* MySQL: the raw table ("fact_view_logs_raw")
    load_result,           \* what load_bangumi_data_to_mysql returned ("": it has not)
    main_result,           \* how the loader's main() ended ("": it has not)
    npc,                   \* control position of insert_data_into_database
    notion_rows,           \* len(df_analytics) (-1: not loaded)
    index,                 \* rows of df_analytics the loop has been through
    success_count,
    error_count,
    posts,                 \* history: row and outcome of each create-page call
    notion_pages,          \* Notion: the rows whose page exists in the database
    collections,           \* collect_all_data: the items fetch_single_category returned
    item_index,            \* items of "for item in collections" gone through
    row_pc,                \* control position of the item loop
    row_error              \* the exception that left the item loop, and its line

vars == <<pc, cat, all_stats, available, offset, attempt, success, items,
          consecutive_failures, all_items, page_log, page_results, had_failure,
          n_ok, page_requested, t_attempt, t_log, t_ret, srv_total, raw_rows,
          _session, session, sessions_created, closed, req_sessions, main_exit,
          fact_view_logs, fact_view_logs_incremental, target_exists, df_target,
          insert_ids, delete_ids, common_ids, df_combined, rpc,
          collection, analytics_rows, next_cat, run, fact_view_logs_raw,
          load_result, main_result,
          npc, notion_rows, index, success_count, error_count, posts, notion_pages,
          collections, item_index, row_pc, row_error>>

ingestVars == <<pc, cat, all_stats, available, offset, attempt, success, items,
                consecutive_failures, all_items, page_log, page_results,
                had_failure, n_ok, page_requested, t_attempt, t_log, t_ret,
                srv_total, raw_rows, _session, session, sessions_created, closed,
                req_sessions, main_exit>>
reconVars == <<fact_view_logs, fact_view_logs_incremental, target_exists, df_target,
               insert_ids, delete_ids, common_ids, df_combined, rpc>>

loadVars == <<collection, analytics_rows, next_cat, run, fact_view_logs_raw,
              load_result, main_result>>
notionVars == <<npc, notion_rows, index, success_count, error_count, posts,
                notion_pages>>
rowVars == <<collections, item_index, row_pc, row_error>>
outsideIngest == <<reconVars, loadVars, notionVars, rowVars>>
outsideRecon == <<ingestVars, loadVars, notionVars, rowVars>>
outsideLoader == <<ingestVars, notionVars, rowVars>>
outsideNotion == <<ingestVars, reconVars, loadVars, rowVars>>
outsideRows == <<ingestVars, reconVars, notionVars>>

\* No item loop is running.
RowsIdle ==
    /\ collections = <<>>
    /\ item_index = 0
    /\ row_pc = "idle"
    /\ row_error = [exc |-> "none", line |-> 0]

\* insert_data_into_database has not been called.
NotionIdle ==
    /\ npc = "idle"
    /\ notion_rows = -1
    /\ index = 0
    /\ success_count = 0
    /\ error_count = 0
    /\ posts = <<>>
    /\ notion_pages = <<>>

\* The loader has not run.
ReconIdle ==
    /\ fact_view_logs = <<>>
    /\ fact_view_logs_incremental = <<>>
    /\ target_exists = FALSE
    /\ df_target = <<>>
    /\ insert_ids = {}
    /\ delete_ids = {}
    /\ common_ids = {}
    /\ df_combined = <<>>
    /\ rpc = "idle"
    /\ collection = <<>>
    /\ analytics_rows = <<>>
    /\ next_cat = 1
    /\ run = 1
    /\ fact_view_logs_raw = <<>>
    /\ load_result = ""
    /\ main_result = ""

fetchVars == <<offset, attempt, success, items, consecutive_failures, all_items,
               page_log, page_results, had_failure, n_ok>>
totalVars == <<t_attempt, t_log, t_ret>>
sessVars == <<_session, session, sessions_created, closed, req_sessions, main_exit>>

stats == all_stats[cat]

\* Number of items in all_items.
RECURSIVE ItemCount(_)
ItemCount(pages) ==
    IF pages = <<>> THEN 0 ELSE Head(pages).n + ItemCount(Tail(pages))

\* ------------------------------------------------------------ source API
\* Items the source returns for limit=LIMIT at offset off when it holds av items.
PageItems(av, off) == Min(LIMIT, Max(0, av - off))

\* ------------------------------------------------------------ the session
\* get_session: "if _session is None: _session = create_session()"
NewSession_Always(h) == TRUE

NewSession(h) == h = 0

\* "session = get_session()"
GetSession ==
    /\ IF NewSession(_session)
         THEN /\ sessions_created' = sessions_created + 1
              /\ _session' = sessions_created + 1
         ELSE UNCHANGED <<sessions_created, _session>>
    /\ session' = _session'

\* "session.get(...)": a request through the function's session.
Request ==
    /\ req_sessions' = req_sessions \cup {[id |-> session, open |-> session \notin closed]}
    /\ UNCHANGED <<_session, session, sessions_created, closed, main_exit>>

\* The finally clause of main(): "if _session: _session.close(); _session = None".
Finally(how) ==
    /\ closed' = IF _session # 0 THEN closed \cup {_session} ELSE closed
    /\ _session' = 0
    /\ main_exit' = how
    /\ pc' = "main_done"
    /\ UNCHANGED <<session, sessions_created, req_sessions>>

\* A function that was handed an open session by its caller.
SessionGiven ==
    /\ _session = 1
    /\ session = 1
    /\ sessions_created = 1
    /\ closed = {}
    /\ req_sessions = {}
    /\ main_exit = ""

\* ------------------------------------------------------------ fetch_single_category
\* "offset + LIMIT >= stats.total_items": the page at off reaches the expected total.
CaughtUp_SignSlip(off, total) == off - LIMIT >= total

CaughtUp(off, total) == off + LIMIT >= total

\* "offset += LIMIT" of a skipped page.
SkipOffset_Stay(off) == off

SkipOffset(off) == off + LIMIT

\* "consecutive_failures >= max_consecutive_failures"
TooManyFailures_OffByOne(cf) == cf > max_consecutive_failures

TooManyFailures(cf) == cf >= max_consecutive_failures

\* Locals at the top of fetch_single_category and of its first "while True" pass.
FetchEntry ==
    /\ offset' = 0
    /\ consecutive_failures' = 0
    /\ all_items' = <<>>
    /\ attempt' = 0
    /\ success' = FALSE
    /\ items' = -1
    /\ page_log' = <<>>
    /\ page_results' = <<>>
    /\ had_failure' = FALSE
    /\ n_ok' = 0

\* "for attempt in range(MAX_RETRIES)": there is another attempt after attempt a.
MoreAttempts_OneMore(a) == a < MAX_RETRIES

MoreAttempts(a) == a + 1 < MAX_RETRIES

\* The for loop moves to its next attempt, or is exhausted.
ForContinue(outcome, slept) ==
    /\ page_log' = Append(page_log, [outcome |-> outcome, sleep |-> slept])
    /\ had_failure' = TRUE
    /\ IF MoreAttempts(attempt)
         THEN /\ attempt' = attempt + 1
              /\ pc' = "request"
              /\ page_results' = page_results
         ELSE /\ attempt' = attempt
              /\ pc' = "after_for"
              /\ page_results' = Append(page_results, [off |-> offset, result |-> "fail"])
    /\ UNCHANGED <<offset, success, items, consecutive_failures, all_items, n_ok,
                   all_stats>>

\* "break" out of the for loop from an except clause.
ForBreakFailed(outcome) ==
    /\ page_log' = Append(page_log, [outcome |-> outcome, sleep |-> 0])
    /\ had_failure' = TRUE
    /\ pc' = "after_for"
    /\ page_results' = Append(page_results, [off |-> offset, result |-> "fail"])
    /\ UNCHANGED <<offset, attempt, success, items, consecutive_failures, all_items,
                   n_ok, all_stats>>

\* Backoff of the ConnectionError / Timeout clauses.
BackoffSleep_Always(a) == RETRY_BACKOFF * Pow2(a)

BackoffSleep(a) == IF a < MAX_RETRIES - 1 THEN RETRY_BACKOFF * Pow2(a) ELSE 0

\* resp.status_code == 429
PageRateLimited ==
    /\ pc = "request"
    /\ Request
    /\ page_requested' = page_requested \cup {cat}
    /\ ForContinue("429", RATE_LIMIT_SLEEP)
    /\ UNCHANGED <<cat, available, totalVars, srv_total, raw_rows>>
    /\ UNCHANGED outsideIngest

\* The request, raise_for_status or the parse raises e.
PageRaises(e) ==
    /\ pc = "request"
    /\ Request
    /\ page_requested' = page_requested \cup {cat}
    /\ LET h == FirstHandler(e, PageHandlers) IN
         CASE h \in {"ConnectionError", "Timeout"} ->
                ForContinue(e, BackoffSleep(attempt))
           [] h \in {"RequestException", "Exception"} ->
                ForBreakFailed(e)
           [] OTHER ->
                /\ pc' = "raised"
                /\ UNCHANGED <<fetchVars, all_stats>>
    /\ UNCHANGED <<cat, available, totalVars, srv_total, raw_rows>>
    /\ UNCHANGED outsideIngest

\* "stats.fetched_items += len(items)" and "stats.pages_fetched += 1", stats
\* being the CategoryStats of the category that is fetched.
CountPage_EveryCategory(s, c, n) ==
    [k \in DOMAIN s |-> [s[k] EXCEPT !.fetched_items = @ + n, !.pages_fetched = @ + 1]]

CountPage_FullPage(s, c, n) ==
    [s EXCEPT ![c].fetched_items = @ + LIMIT, ![c].pages_fetched = @ + 1]

CountPage(s, c, n) ==
    [s EXCEPT ![c].fetched_items = @ + n, ![c].pages_fetched = @ + 1]

\* A 200 response carrying PageItems(...) items.
PageOk ==
    /\ pc = "request"
    /\ Request
    /\ page_requested' = page_requested \cup {cat}
    /\ n_ok' = n_ok + 1
    /\ LET n == PageItems(available[cat], offset) IN
         /\ items' = n
         /\ success' = TRUE
         /\ pc' = "after_for"
         /\ IF n = 0
              THEN /\ page_log' = Append(page_log, [outcome |-> "ok", sleep |-> 0])
                   /\ page_results' =
                        Append(page_results, [off |-> offset, result |-> "empty"])
                   /\ UNCHANGED <<offset, consecutive_failures, all_items, all_stats>>
              ELSE /\ all_items' = Append(all_items, [off |-> offset, n |-> n])
                   /\ all_stats' = CountPage(all_stats, cat, n)
                   /\ consecutive_failures' = 0
                   /\ page_results' =
                        Append(page_results, [off |-> offset, result |-> "ok"])
                   /\ IF CaughtUp(offset, stats.total_items)
                        THEN /\ offset' = offset
                             /\ page_log' =
                                  Append(page_log, [outcome |-> "ok", sleep |-> 0])
                        ELSE /\ offset' = offset + LIMIT
                             /\ page_log' =
                                  Append(page_log, [outcome |-> "ok", sleep |-> PAGE_DELAY])
    /\ UNCHANGED <<cat, available, attempt, had_failure, totalVars, srv_total,
                   raw_rows>>
    /\ UNCHANGED outsideIngest

\* The next pass of "while True".
NextPass ==
    /\ pc' = "request"
    /\ attempt' = 0
    /\ success' = FALSE
    /\ page_log' = <<>>

\* "return all_items"
FetchReturn ==
    /\ pc' = "fetch_ret"
    /\ UNCHANGED <<attempt, success, page_log>>

\* After the for loop: the failure accounting and the end-of-data test.
AfterFor ==
    /\ pc = "after_for"
    /\ IF ~success
         THEN /\ consecutive_failures' = consecutive_failures + 1
              /\ IF TooManyFailures(consecutive_failures + 1)
                   THEN FetchReturn /\ offset' = offset
                   ELSE NextPass /\ offset' = SkipOffset(offset)
         ELSE /\ UNCHANGED <<consecutive_failures, offset>>
              /\ IF items = 0 \/ CaughtUp(offset, stats.total_items)
                   THEN FetchReturn
                   ELSE NextPass
    /\ UNCHANGED <<cat, all_stats, available, items, all_items, page_results,
                   had_failure, n_ok, page_requested, totalVars, srv_total, raw_rows,
                   sessVars>>
    /\ UNCHANGED outsideIngest

\* ------------------------------------------------------------ one call of the fetcher
InitFetch ==
    /\ pc = "request"
    /\ cat \in Cats
    /\ \E t \in Sizes \ {0} :
         all_stats = [c \in Cats |-> CategoryStats(IF c = cat THEN t ELSE 0)]
    /\ \E av \in Sizes : available = [c \in Cats |-> IF c = cat THEN av ELSE 0]
    /\ offset = 0
    /\ consecutive_failures = 0
    /\ all_items = <<>>
    /\ attempt = 0
    /\ success = FALSE
    /\ items = -1
    /\ page_log = <<>>
    /\ page_results = <<>>
    /\ had_failure = FALSE
    /\ n_ok = 0
    /\ page_requested = {}
    /\ t_attempt = 0
    /\ t_log = <<>>
    /\ t_ret = -1
    /\ srv_total = [c \in Cats |-> all_stats[c].total_items]
    /\ raw_rows = <<>>
    /\ SessionGiven
    /\ ReconIdle
    /\ NotionIdle
    /\ RowsIdle

NextFetch ==
    \/ PageOk
    \/ PageRateLimited
    \/ \E e \in ExcClasses : PageRaises(e)
    \/ AfterFor

SpecFetch == InitFetch /\ [][NextFetch]_vars

\* The interpreter always runs the next statement of a call in progress.
FairSpecFetch == SpecFetch /\ WF_vars(NextFetch)

\* ------------------------------------------------------------ fetch_category_total
\* "return ..." of fetch_category_total
TotalReturn(v) ==
    /\ t_ret' = v
    /\ pc' = "total_ret"
    /\ t_attempt' = t_attempt

\* A 200 response: "return payload.get("total", 0)".
TotalOk ==
    /\ pc = "total_request"
    /\ Request
    /\ t_log' = Append(t_log, [limit |-> 1, outcome |-> "ok", sleep |-> 0])
    /\ TotalReturn(srv_total[cat])
    /\ UNCHANGED <<cat, all_stats, available, fetchVars, page_requested, srv_total,
                   raw_rows>>
    /\ UNCHANGED outsideIngest

\* The request, raise_for_status or the parse raises e.
TotalRaises(e) ==
    /\ pc = "total_request"
    /\ Request
    /\ LET h == FirstHandler(e, TotalHandlers) IN
         CASE h \in {"ConnectionError", "Timeout"} ->
                /\ t_log' = Append(t_log, [limit |-> 1, outcome |-> e,
                                           sleep |-> BackoffSleep(t_attempt)])
                /\ IF t_attempt < MAX_RETRIES - 1
                     THEN /\ t_attempt' = t_attempt + 1
                          /\ pc' = "total_request"
                          /\ t_ret' = t_ret
                     ELSE TotalReturn(0)
           [] h = "Exception" ->
                /\ t_log' = Append(t_log, [limit |-> 1, outcome |-> e, sleep |-> 0])
                /\ TotalReturn(0)
           [] OTHER ->
                /\ t_log' = Append(t_log, [limit |-> 1, outcome |-> e, sleep |-> 0])
                /\ pc' = "raised"
                /\ UNCHANGED <<t_attempt, t_ret>>
    /\ UNCHANGED <<cat, all_stats, available, fetchVars, page_requested, srv_total,
                   raw_rows>>
    /\ UNCHANGED outsideIngest

\* ------------------------------------------------------------ one call of the resolver
InitTotal ==
    /\ pc = "total_request"
    /\ SessionGiven
    /\ cat \in Cats
    /\ all_stats = <<>>
    /\ srv_total \in [Cats -> Sizes]
    /\ available = srv_total
    /\ offset = 0
    /\ consecutive_failures = 0
    /\ all_items = <<>>
    /\ attempt = 0
    /\ success = FALSE
    /\ items = -1
    /\ page_log = <<>>
    /\ page_results = <<>>
    /\ had_failure = FALSE
    /\ n_ok = 0
    /\ page_requested = {}
    /\ t_attempt = 0
    /\ t_log = <<>>
    /\ t_ret = -1
    /\ raw_rows = <<>>
    /\ ReconIdle
    /\ NotionIdle
    /\ RowsIdle

NextTotal ==
    \/ TotalOk
    \/ \E e \in ExcClasses : TotalRaises(e)

SpecTotal == InitTotal /\ [][NextTotal]_vars

\* ------------------------------------------------------------ get_all_category_totals
\* "all_stats[(st, ct)] = CategoryStats(..., total_items=total)", then the next
\* category, or the return and the entry of collect_all_data, which takes the
\* session ("session = get_session()").
StoreTotal ==
    /\ pc = "total_ret"
    /\ all_stats' = Append(all_stats, CategoryStats(t_ret))
    /\ t_attempt' = 0
    /\ t_log' = <<>>
    /\ t_ret' = -1
    /\ IF cat < NumCategories
         THEN /\ cat' = cat + 1
              /\ pc' = "total_request"
              /\ UNCHANGED <<_session, session, sessions_created>>
         ELSE /\ cat' = 1
              /\ pc' = "collect_next"
              /\ GetSession
    /\ UNCHANGED <<available, fetchVars, page_requested, srv_total, raw_rows,
                   closed, req_sessions, main_exit>>
    /\ UNCHANGED outsideIngest

\* ------------------------------------------------------------ collect_all_data
\* "if stats.total_items == 0: continue"
SkipCategory_Never(st) == FALSE

SkipCategory(st) == st.total_items = 0

\* Head of "for (st, ct), stats in all_stats.items()".
CollectNext ==
    /\ pc = "collect_next"
    /\ IF cat > NumCategories
         THEN /\ pc' = "collected"
              /\ UNCHANGED <<cat, fetchVars>>
         ELSE IF SkipCategory(all_stats[cat])
           THEN /\ cat' = cat + 1
                /\ pc' = "collect_next"
                /\ UNCHANGED fetchVars
           ELSE /\ pc' = "request"
                /\ cat' = cat
                /\ FetchEntry
    /\ UNCHANGED <<all_stats, available, page_requested, totalVars, srv_total,
                   raw_rows, sessVars>>
    /\ UNCHANGED outsideIngest

\* One raw row (and one analytics row) per fetched item, in order.
RowsOf(c, pages) == [i \in DOMAIN pages |-> [cat |-> c, off |-> pages[i].off, n |-> pages[i].n]]

\* "collections = fetch_single_category(...)" has returned: the rows are built.
CollectRows ==
    /\ pc = "fetch_ret"
    /\ raw_rows' = raw_rows \o RowsOf(cat, all_items)
    /\ cat' = cat + 1
    /\ pc' = "collect_next"
    /\ UNCHANGED <<all_stats, available, fetchVars, page_requested, totalVars,
                   srv_total, sessVars>>
    /\ UNCHANGED outsideIngest

\* Building the rows of a fetched category raises (an item whose "subject" or
\* "tags" is null): the exception leaves collect_all_data and main().
CollectRowsRaises ==
    /\ pc = "fetch_ret"
    /\ all_items # <<>>
    /\ Finally("exception")
    /\ UNCHANGED <<cat, all_stats, available, fetchVars, page_requested, totalVars,
                   srv_total, raw_rows>>
    /\ UNCHANGED outsideIngest

\* ------------------------------------------------------------ main
\* "all_stats = get_all_category_totals()": its first statement takes the
\* session; create_session may raise.
MainStart ==
    /\ pc = "main_start"
    /\ \/ /\ GetSession
          /\ pc' = "total_request"
          /\ UNCHANGED <<closed, req_sessions, main_exit>>
       \/ /\ NewSession(_session)
          /\ Finally("exception")
    /\ UNCHANGED <<cat, all_stats, available, fetchVars, page_requested, totalVars,
                   srv_total, raw_rows>>
    /\ UNCHANGED outsideIngest

\* collect_all_data has returned: "if not raw_rows: return None, None, None",
\* else the DataFrames are built and exported, which may raise.
\* main() of the ingestion: "if not raw_rows: ...; return None, None, None".
NoRows_Never(rows) == FALSE

NoRows(rows) == rows = <<>>

MainFinish ==
    /\ pc = "collected"
    /\ IF NoRows(raw_rows)
         THEN Finally("no_data")
         ELSE \E how \in {"return", "exception"} : Finally(how)
    /\ UNCHANGED <<cat, all_stats, available, fetchVars, page_requested, totalVars,
                   srv_total, raw_rows>>
    /\ UNCHANGED outsideIngest

\* ------------------------------------------------------------ the ingestion run
\* What the source holds and reports in a run.
RunSizes == {0, 1, LIMIT + 1}

InitIngest ==
    /\ pc = "main_start"
    /\ _session = 0
    /\ session = 0
    /\ sessions_created = 0
    /\ closed = {}
    /\ req_sessions = {}
    /\ main_exit = ""
    /\ cat = 1
    /\ all_stats = <<>>
    /\ srv_total \in [Cats -> RunSizes]
    /\ available = srv_total
    /\ offset = 0
    /\ consecutive_failures = 0
    /\ all_items = <<>>
    /\ attempt = 0
    /\ success = FALSE
    /\ items = -1
    /\ page_log = <<>>
    /\ page_results = <<>>
    /\ had_failure = FALSE
    /\ n_ok = 0
    /\ page_requested = {}
    /\ t_attempt = 0
    /\ t_log = <<>>
    /\ t_ret = -1
    /\ raw_rows = <<>>
    /\ ReconIdle
    /\ NotionIdle
    /\ RowsIdle

NextIngest ==
    \/ MainStart
    \/ TotalOk
    \/ \E e \in ExcClasses : TotalRaises(e)
    \/ StoreTotal
    \/ CollectNext
    \/ PageOk
    \/ PageRateLimited
    \/ \E e \in ExcClasses : PageRaises(e)
    \/ AfterFor
    \/ CollectRows
    \/ CollectRowsRaises
    \/ MainFinish

SpecIngest == InitIngest /\ [][NextIngest]_vars

\* ------------------------------------------------------------ tables
\* A null subject_id (NaN in the frame).
NULL == "NULL"
Row(k, d) == [subject_id |-> k, data |-> d]

\* The rows the tables are drawn from: keys A, B, C and the null key, with a
\* second version of A and of the keyless row.
SampleRows ==
    {Row("A", 1), Row("A", 2), Row("B", 2), Row("C", 3), Row(NULL, 1), Row(NULL, 2)}

Tables == UNION {[1 .. n -> SampleRows] : n \in 0 .. MaxRows}

\* df[df[id_column].notna()] and df[df[id_column].isna()]
WithId_KeepsNull(df) == df

WithId(df) == SelectSeq(df, LAMBDA r : r.subject_id # NULL)
NaId(df) == SelectSeq(df, LAMBDA r : r.subject_id = NULL)

\* The elements of a sequence.
Range(t) == {t[i] : i \in DOMAIN t}

\* set(df[id_column])
IdSet(df) == {df[i].subject_id : i \in DOMAIN df}

\* df[df[id_column].isin(ids)] and df[~df[id_column].isin(ids)]
IsIn(df, ids) == SelectSeq(df, LAMBDA r : r.subject_id \in ids)
NotIn(df, ids) == SelectSeq(df, LAMBDA r : r.subject_id \notin ids)

\* Where a row of the written frame was taken from.
Tag(df, o) ==
    [i \in DOMAIN df |->
        [subject_id |-> df[i].subject_id, data |-> df[i].data, origin |-> o]]
Untag(df) == [i \in DOMAIN df |-> Row(df[i].subject_id, df[i].data)]

\* ------------------------------------------------------------ implement_incremental_load
\* "if df_target.empty"
Empty_Never(df) == FALSE

Empty(df) == Len(df) = 0

\* "insert_ids = source_id_set - target_id_set"
InsertIds_AllSource(source_id_set, target_id_set) == source_id_set

InsertIds(source_id_set, target_id_set) == source_id_set \ target_id_set

\* "delete_ids = target_id_set - source_id_set"
DeleteIds_NoDifference(source_id_set, target_id_set) == target_id_set

DeleteIds(source_id_set, target_id_set) == target_id_set \ source_id_set

\* "common_ids = source_id_set & target_id_set"
CommonIds(source_id_set, target_id_set) == source_id_set \cap target_id_set

\* The target rows kept: not deleted, and not the old version of an updated row.
KeptFromTarget_OldVersionsStay(df_target_with_id, del, com) ==
    NotIn(df_target_with_id, del)

KeptFromTarget(df_target_with_id, del, com) ==
    NotIn(NotIn(df_target_with_id, del), com)

\* "df_new = df_source_with_id[df_source_with_id[id_column].isin(insert_ids)]"
DfNew(df_source_with_id, ins) == IsIn(df_source_with_id, ins)

\* "df_updated = df_source_with_id[df_source_with_id[id_column].isin(common_ids)]"
DfUpdated_None(df_source_with_id, com) == <<>>

DfUpdated_FirstOnly(df_source_with_id, com) ==
    IF IsIn(df_source_with_id, com) = <<>>
        THEN <<>>
        ELSE <<Head(IsIn(df_source_with_id, com))>>

DfUpdated(df_source_with_id, com) == IsIn(df_source_with_id, com)

\* "pd.concat([df_combined, df_new, df_updated, df_source_na_id])"
Combined(df_source, df_tgt) ==
    LET ins == InsertIds(IdSet(WithId(df_source)), IdSet(WithId(df_tgt)))
        del == DeleteIds(IdSet(WithId(df_source)), IdSet(WithId(df_tgt)))
        com == CommonIds(IdSet(WithId(df_source)), IdSet(WithId(df_tgt)))
    IN  Tag(KeptFromTarget(WithId(df_tgt), del, com), "target")
        \o Tag(DfNew(WithId(df_source), ins), "source")
        \o Tag(DfUpdated(WithId(df_source), com), "source")
        \o Tag(NaId(df_source), "source")

\* The read of the target: the table, or an empty frame when the read raises
\* (the table does not exist, or the read fails).
TargetRead(read_ok) ==
    IF read_ok /\ target_exists THEN fact_view_logs_incremental ELSE <<>>

\* "if df_target.empty": the source is written as the target.
ReconcileInitial ==
    /\ rpc = "start"
    /\ \E read_ok \in BOOLEAN :
         /\ Empty(TargetRead(read_ok))
         /\ df_target' = TargetRead(read_ok)
    /\ fact_view_logs_incremental' = fact_view_logs
    /\ target_exists' = TRUE
    /\ rpc' = "done_initial"
    /\ UNCHANGED <<fact_view_logs, insert_ids, delete_ids, common_ids, df_combined>>
    /\ UNCHANGED outsideRecon

\* The incremental sync: the diff by subject_id and the write of the combined frame.
ReconcileDiff ==
    /\ rpc = "start"
    /\ ~Empty(TargetRead(TRUE))
    /\ df_target' = TargetRead(TRUE)
    /\ insert_ids' =
         InsertIds(IdSet(WithId(fact_view_logs)), IdSet(WithId(TargetRead(TRUE))))
    /\ delete_ids' =
         DeleteIds(IdSet(WithId(fact_view_logs)), IdSet(WithId(TargetRead(TRUE))))
    /\ common_ids' =
         CommonIds(IdSet(WithId(fact_view_logs)), IdSet(WithId(TargetRead(TRUE))))
    /\ df_combined' = Combined(fact_view_logs, TargetRead(TRUE))
    /\ fact_view_logs_incremental' = Untag(Combined(fact_view_logs, TargetRead(TRUE)))
    /\ rpc' = "done_diff"
    /\ UNCHANGED <<fact_view_logs, target_exists>>
    /\ UNCHANGED outsideRecon

\* The engine, the read of the source or the write raises: logged and re-raised.
ReconcileRaises ==
    /\ rpc = "start"
    /\ rpc' = "raised"
    /\ UNCHANGED <<fact_view_logs, fact_view_logs_incremental, target_exists,
                   df_target, insert_ids, delete_ids, common_ids, df_combined>>
    /\ UNCHANGED outsideRecon

\* The ingestion code is not running.
IngestIdle ==
    /\ pc = "idle"
    /\ cat = 1
    /\ all_stats = <<>>
    /\ srv_total = [c \in Cats |-> 0]
    /\ available = srv_total
    /\ offset = 0
    /\ consecutive_failures = 0
    /\ all_items = <<>>
    /\ attempt = 0
    /\ success = FALSE
    /\ items = -1
    /\ page_log = <<>>
    /\ page_results = <<>>
    /\ had_failure = FALSE
    /\ n_ok = 0
    /\ page_requested = {}
    /\ t_attempt = 0
    /\ t_log = <<>>
    /\ t_ret = -1
    /\ raw_rows = <<>>
    /\ _session = 0
    /\ session = 0
    /\ sessions_created = 0
    /\ closed = {}
    /\ req_sessions = {}
    /\ main_exit = ""

\* One call of implement_incremental_load on any source and previous target.
InitRecon ==
    /\ IngestIdle
    /\ NotionIdle
    /\ RowsIdle
    /\ fact_view_logs \in Tables
    /\ target_exists \in BOOLEAN
    /\ fact_view_logs_incremental \in (IF target_exists THEN Tables ELSE {<<>>})
    /\ df_target = <<>>
    /\ insert_ids = {}
    /\ delete_ids = {}
    /\ common_ids = {}
    /\ df_combined = <<>>
    /\ rpc = "start"
    /\ collection = <<>>
    /\ analytics_rows = <<>>
    /\ next_cat = 1
    /\ run = 1
    /\ fact_view_logs_raw = <<>>
    /\ load_result = ""
    /\ main_result = ""

NextRecon ==
    \/ ReconcileInitial
    \/ ReconcileDiff
    \/ ReconcileRaises

SpecRecon == InitRecon /\ [][NextRecon]_vars

\* ------------------------------------------------------------ the loader, run after run
\* The subjects of the collection, in the order the source lists them.
SubjectIds == <<"A", "B">>

\* The rows built from the items the source returns for category c: one row per
\* subject kept in c at the time of the request, keyed by the subject's id.
CategoryRows(coll, c) ==
    LET kept == SelectSeq(SubjectIds, LAMBDA k : coll[k] = c)
    IN  [i \in DOMAIN kept |-> Row(kept[i], c)]

\* One pass of the category loop of collect_all_data: the category is fetched and
\* its items become rows, or nothing is fetched for it.
CollectCategory ==
    /\ rpc = "collect"
    /\ next_cat <= NumCategories
    /\ \E fetched \in BOOLEAN :
         analytics_rows' =
            analytics_rows \o (IF fetched THEN CategoryRows(collection, next_cat)
                                          ELSE <<>>)
    /\ next_cat' = next_cat + 1
    /\ UNCHANGED <<collection, run, fact_view_logs_raw, load_result, main_result>>
    /\ UNCHANGED <<fact_view_logs, fact_view_logs_incremental, target_exists,
                   df_target, insert_ids, delete_ids, common_ids, df_combined, rpc>>
    /\ UNCHANGED outsideLoader

\* Between two requests of a run the user moves a subject to another category,
\* adds it to the collection or removes it.
CollectionChanges ==
    /\ rpc = "collect"
    /\ next_cat <= NumCategories
    /\ \E k \in Range(SubjectIds), c \in 0 .. NumCategories :
         /\ c # collection[k]
         /\ collection' = [collection EXCEPT ![k] = c]
    /\ UNCHANGED <<analytics_rows, next_cat, run, fact_view_logs_raw, load_result,
                   main_result>>
    /\ UNCHANGED reconVars
    /\ UNCHANGED outsideLoader

\* main() of the loader: "if df_raw is None: ...; return", else the reconciliation.
ReconcileStarts_Always(res) == TRUE

ReconcileStarts(res) == res = "frames"

\* What load_bangumi_data_to_mysql returns: the frames, or (None, None, None)
\* when the ingestion delivered no rows or when its except clause caught an
\* exception.
LoadResult(outcome) ==
    CASE outcome = "loaded" -> "frames"
      [] outcome = "no_rows" -> "none_no_rows"
      [] OTHER -> "none_error"

\* load_bangumi_data_to_mysql after the collection, and the test main() makes of
\* its result. No rows: nothing is written. Otherwise the analytics frame
\* replaces the source table and then the raw frame the raw table; an exception
\* before the first write (the engine cannot connect, the ingestion raised) or
\* at the second one is caught.
LoadSnapshot ==
    /\ rpc = "collect"
    /\ next_cat > NumCategories
    /\ \E outcome \in (IF NoRows(analytics_rows)
                          THEN {"no_rows"}
                          ELSE {"loaded", "analytics_write_raises", "raw_write_raises"}) :
         /\ fact_view_logs' =
              IF outcome \in {"loaded", "raw_write_raises"} THEN analytics_rows
                                                            ELSE fact_view_logs
         /\ fact_view_logs_raw' =
              IF outcome = "loaded" THEN analytics_rows ELSE fact_view_logs_raw
         /\ load_result' = LoadResult(outcome)
         /\ IF ReconcileStarts(LoadResult(outcome))
              THEN rpc' = "start" /\ main_result' = main_result
              ELSE rpc' = "no_data" /\ main_result' = "returns_none"
    /\ UNCHANGED <<fact_view_logs_incremental, target_exists, df_target, insert_ids,
                   delete_ids, common_ids, df_combined>>
    /\ UNCHANGED <<collection, analytics_rows, next_cat, run>>
    /\ UNCHANGED outsideLoader

\* implement_incremental_load has returned or raised: main() has no handler
\* around it, and after it only "return df_raw, df_analytics, all_stats".
MainEnds ==
    /\ rpc \in {"done_initial", "done_diff", "raised"}
    /\ main_result = ""
    /\ main_result' = IF rpc = "raised" THEN "raises" ELSE "returns_frames"
    /\ UNCHANGED <<collection, analytics_rows, next_cat, run, fact_view_logs_raw,
                   load_result>>
    /\ UNCHANGED reconVars
    /\ UNCHANGED outsideLoader

\* The loader is run again.
NextRun ==
    /\ main_result # ""
    /\ run < MaxRuns
    /\ load_result' = ""
    /\ main_result' = ""
    /\ run' = run + 1
    /\ rpc' = "collect"
    /\ analytics_rows' = <<>>
    /\ next_cat' = 1
    /\ df_target' = <<>>
    /\ insert_ids' = {}
    /\ delete_ids' = {}
    /\ common_ids' = {}
    /\ df_combined' = <<>>
    /\ UNCHANGED <<collection, fact_view_logs, fact_view_logs_incremental,
                   target_exists, fact_view_logs_raw>>
    /\ UNCHANGED outsideLoader

\* The first run on a database without tables.
InitLoader ==
    /\ IngestIdle
    /\ NotionIdle
    /\ RowsIdle
    /\ collection \in [Range(SubjectIds) -> 0 .. NumCategories]
    /\ analytics_rows = <<>>
    /\ next_cat = 1
    /\ run = 1
    /\ fact_view_logs_raw = <<>>
    /\ load_result = ""
    /\ main_result = ""
    /\ fact_view_logs = <<>>
    /\ fact_view_logs_incremental = <<>>
    /\ target_exists = FALSE
    /\ df_target = <<>>
    /\ insert_ids = {}
    /\ delete_ids = {}
    /\ common_ids = {}
    /\ df_combined = <<>>
    /\ rpc = "collect"

NextLoader ==
    \/ CollectCategory
    \/ CollectionChanges
    \/ LoadSnapshot
    \/ ReconcileInitial
    \/ ReconcileDiff
    \/ ReconcileRaises
    \/ MainEnds
    \/ NextRun

SpecLoader == InitLoader /\ [][NextLoader]_vars

\* ------------------------------------------------------------ the item loop of collect_all_data
\* The shapes of a fetched item, as far as the row building reads them:
\* "subject" a dict, null, or absent; in a subject, "id" present or absent,
\* "tags" a list of dicts, absent, null, a non-empty string, or a list with an
\* entry that is not a dict, "short_summary" a string, absent or null.
Items ==
    {[subject |-> "dict", id |-> i, tags |-> t, short_summary |-> s] :
        i \in {"int", "absent"},
        t \in {"dicts", "absent", "null", "string", "non_dict_entry"},
        s \in {"string", "absent", "null"}}
    \cup {[subject |-> u, id |-> "absent", tags |-> "absent", short_summary |-> "absent"] :
            u \in {"null", "absent"}}

Raises(exc, line) == [raises |-> TRUE, exc |-> exc, line |-> line, subject_id |-> NULL]
Built(k) == [raises |-> FALSE, exc |-> "none", line |-> 0, subject_id |-> k]

\* "subject.get(name, default)" for subject = item.get("subject", {}): an absent
\* subject is the empty dict, in which every key is absent.
SubjectGet(item, name) == IF item.subject = "absent" THEN "absent" ELSE item[name]

\* The statements of one pass of "for item in collections", in order.
BuildRow(item) ==
    IF item.subject = "null"
        \* "tags = subject.get("tags", [])" on None
        THEN Raises("AttributeError", 393)
    ELSE IF SubjectGet(item, "short_summary") = "null"
        \* extract_common_fields: "subject.get("short_summary", "")[:500]" on None
        THEN Raises("TypeError", 322)
    ELSE IF SubjectGet(item, "tags") = "null"
        \* "[t.get("name") for t in tags if isinstance(t, dict)]" on None
        THEN Raises("TypeError", 428)
    ELSE IF SubjectGet(item, "tags") \in {"string", "non_dict_entry"}
        \* "[t.get("name") for t in tags if t.get("name")]" on an entry without get
        THEN Raises("AttributeError", 458)
    ELSE Built(IF SubjectGet(item, "id") = "int" THEN "A" ELSE NULL)

\* One pass of "for item in collections": the row is appended, or the exception
\* leaves collect_all_data, which has no handler.
BuildNextRow ==
    /\ row_pc = "rows"
    /\ item_index < Len(collections)
    /\ LET r == BuildRow(collections[item_index + 1]) IN
         IF r.raises
           THEN /\ row_pc' = "raised"
                /\ row_error' = [exc |-> r.exc, line |-> r.line]
                /\ UNCHANGED <<item_index, analytics_rows>>
           ELSE /\ analytics_rows' = Append(analytics_rows, Row(r.subject_id, 1))
                /\ item_index' = item_index + 1
                /\ UNCHANGED <<row_pc, row_error>>
    /\ UNCHANGED <<collections, collection, next_cat, run, fact_view_logs_raw,
                   load_result, main_result>>
    /\ UNCHANGED outsideRows

\* The items of the category are exhausted.
RowsDone ==
    /\ row_pc = "rows"
    /\ item_index = Len(collections)
    /\ row_pc' = "done"
    /\ UNCHANGED <<collections, item_index, row_error>>
    /\ UNCHANGED loadVars
    /\ UNCHANGED outsideRows

\* The item loop on the items of one fetched category.
InitRows ==
    /\ IngestIdle
    /\ ReconIdle
    /\ NotionIdle
    /\ collections \in UNION {[1 .. n -> Items] : n \in 1 .. MaxItems}
    /\ item_index = 0
    /\ row_pc = "rows"
    /\ row_error = [exc |-> "none", line |-> 0]

NextRows ==
    \/ BuildNextRow
    \/ RowsDone

SpecRows == InitRows /\ [][NextRows]_vars

\* ------------------------------------------------------------ insert_data_into_database
\* The outcomes of the create-page call of a row: status 200, another status, or
\* an exception out of requests.post.
PostOutcomes == {"200", "rejected", "raises"}

\* "if response.status_code == 200: success_count += 1"
SuccessCount(sc, outcome) == IF outcome = "200" THEN sc + 1 ELSE sc

\* "else: error_count += 1" and "except Exception as e: error_count += 1"
ErrorCount_RaisesUncounted(ec, outcome) == IF outcome = "rejected" THEN ec + 1 ELSE ec

ErrorCount(ec, outcome) == IF outcome = "200" THEN ec ELSE ec + 1

\* load_bangumi_data_to_mysql returns the analytics frame, or (None, None, None),
\* on which len(df_analytics) raises.
NotionLoad ==
    /\ npc = "load"
    /\ \/ \E n \in 1 .. MaxNotionRows :
            /\ notion_rows' = n
            /\ npc' = "loop"
       \/ /\ npc' = "raised"
          /\ UNCHANGED notion_rows
    /\ UNCHANGED <<index, success_count, error_count, posts, notion_pages>>
    /\ UNCHANGED outsideNotion

\* One pass of "for index, row in df_analytics.iterrows()": the properties are
\* built, the page is posted and the outcome counted. A call that raises may or
\* may not have created the page.
NotionInsertRow ==
    /\ npc = "loop"
    /\ index < notion_rows
    /\ \E outcome \in PostOutcomes :
         /\ posts' = Append(posts, [row |-> index + 1, outcome |-> outcome])
         /\ success_count' = SuccessCount(success_count, outcome)
         /\ error_count' = ErrorCount(error_count, outcome)
         /\ \E created \in BOOLEAN :
              /\ outcome = "200" => created
              /\ outcome = "rejected" => ~created
              /\ notion_pages' = IF created THEN Append(notion_pages, index + 1)
                                            ELSE notion_pages
    /\ index' = index + 1
    /\ UNCHANGED <<npc, notion_rows>>
    /\ UNCHANGED outsideNotion

\* "return success_count, error_count"
NotionReturn ==
    /\ npc = "loop"
    /\ index = notion_rows
    /\ npc' = "returned"
    /\ UNCHANGED <<notion_rows, index, success_count, error_count, posts,
                   notion_pages>>
    /\ UNCHANGED outsideNotion

\* One call of insert_data_into_database.
InitNotion ==
    /\ IngestIdle
    /\ ReconIdle
    /\ npc = "load"
    /\ notion_rows = -1
    /\ index = 0
    /\ success_count = 0
    /\ error_count = 0
    /\ posts = <<>>
    /\ notion_pages = <<>>
    /\ RowsIdle

NextNotion ==
    \/ NotionLoad
    \/ NotionInsertRow
    \/ NotionReturn

SpecNotion == InitNotion /\ [][NextNotion]_vars

\* ------------------------------------------------------------ claims on the fetcher
CeilDiv(a, b) == (a + b - 1) \div b
RoundUpToPage(x) == CeilDiv(x, LIMIT) * LIMIT

Outcomes(log) == [i \in DOMAIN log |-> log[i].outcome]
Sleeps(log) == [i \in DOMAIN log |-> log[i].sleep]

\* Number of "fail" results after the last "ok" result of the page history.
RECURSIVE FailsSinceOk(_)
FailsSinceOk(pr) ==
    IF pr = <<>> \/ pr[Len(pr)].result = "ok" THEN 0
    ELSE (IF pr[Len(pr)].result = "fail" THEN 1 ELSE 0)
         + FailsSinceOk(SubSeq(pr, 1, Len(pr) - 1))

\* The offsets of the pages of pr with result r, in order.
RECURSIVE OffsOf(_, _)
OffsOf(pr, r) ==
    IF pr = <<>> THEN <<>>
    ELSE (IF Head(pr).result = r THEN <<Head(pr).off>> ELSE <<>>) \o OffsOf(Tail(pr), r)

FetchReturned == pc = "fetch_ret"

\* C1: absent failures, a fetch with expected_total > 0 returns
\* min(available, expected_total) items rounded up to a page boundary (as far as
\* the source holds items); when the source holds exactly expected_total items,
\* all of them are returned.
C1_AllItemsReturned ==
    (FetchReturned /\ ~had_failure /\ stats.total_items > 0) =>
        /\ ItemCount(all_items) =
             Min(available[cat],
                 RoundUpToPage(Min(available[cat], stats.total_items)))
        /\ available[cat] = stats.total_items =>
             ItemCount(all_items) = stats.total_items

\* C2: absent failures, a fetch with expected_total > 0 gets at most
\* ceil(expected_total / LIMIT) successful page responses.
C2_AtMostCeilPages ==
    (~had_failure /\ stats.total_items > 0) =>
        n_ok <= CeilDiv(stats.total_items, LIMIT)

\* A failure-free fetch of several pages has returned.
C2_Witness == FetchReturned /\ ~had_failure /\ n_ok >= 2

\* C4: a page whose every attempt was answered 429 is never given up as a failed
\* page (429 responses do not use up the page's retry budget).
C4_RateLimitNotCounted ==
    ~(/\ pc = "after_for"
      /\ ~success
      /\ page_log # <<>>
      /\ \A i \in DOMAIN page_log : page_log[i].outcome = "429")

\* C5: the fetch terminates under every behaviour of the source, and every pass
\* of the outer loop that does not end the fetch leaves the offset strictly
\* greater than the offset the pass requested.
C5_TerminatesAndAdvances ==
    /\ <>FetchReturned
    /\ [][(pc = "after_for" /\ pc' = "request") =>
            offset' > page_results[Len(page_results)].off]_vars

\* A fetch that met failures and went through several passes has returned.
C5_Witness == FetchReturned /\ had_failure /\ Len(page_results) >= 3

\* C6: the failure counter counts the fully failed pages since the last non-empty
\* page; at three the fetch has aborted, returning exactly the pages accumulated
\* before them; after a first or second failed page the fetch goes on, one page
\* width past the failed page.
C6_AbortAfterThreeFailedPages ==
    LET k == FailsSinceOk(page_results)
        last == page_results[Len(page_results)]
    IN
    /\ k <= 3
    /\ [i \in DOMAIN all_items |-> all_items[i].off] = OffsOf(page_results, "ok")
    /\ pc # "after_for" =>
         /\ consecutive_failures = k
         /\ k = 3 =>
              /\ FetchReturned
              /\ \A i \in 0 .. 2 : page_results[Len(page_results) - i].result = "fail"
              /\ \A i \in DOMAIN all_items :
                   all_items[i].off < page_results[Len(page_results) - 2].off
         /\ (k \in {1, 2} /\ last.result = "fail") =>
              /\ pc = "request"
              /\ offset = last.off + LIMIT
    /\ pc = "request" => offset = LIMIT * Len(page_results)

\* Three failed pages in a row ended a fetch that had already accumulated items.
C6_Witness == FetchReturned /\ consecutive_failures = 3 /\ all_items # <<>>

ThreeConnectionErrors ==
    /\ pc = "after_for"
    /\ Outcomes(page_log) = <<"ConnectionError", "ConnectionError", "ConnectionError">>

\* C7 as stated: three connection errors at one offset are followed by backoff
\* delays of 1 s, 2 s and 4 s.
C7_BackoffOneTwoFour ==
    ThreeConnectionErrors =>
        Sleeps(page_log) = <<RETRY_BACKOFF, 2 * RETRY_BACKOFF, 4 * RETRY_BACKOFF>>

\* C7 amended: three connection errors at one offset are followed by sleeps of
\* 1 s and 2 s and by none after the third; the page is then given up for good:
\* the fetch moves one page width on, or returns when it is the third failed page
\* in a row, and no failed offset is requested again.
C7_BackoffOneTwoThenSkip ==
    /\ [](ThreeConnectionErrors =>
            Sleeps(page_log) = <<RETRY_BACKOFF, 2 * RETRY_BACKOFF, 0>>)
    /\ [](pc = "request" =>
            \A i \in DOMAIN page_results :
                page_results[i].result = "fail" => page_results[i].off # offset)
    /\ [][ThreeConnectionErrors =>
            IF consecutive_failures = 2
              THEN pc' = "fetch_ret" /\ offset' = offset
              ELSE pc' = "request" /\ offset' = offset + LIMIT]_vars

C7_Witness == ThreeConnectionErrors

\* ------------------------------------------------------------ claims on the resolver
Retryable == {"ConnectionError", "Timeout"}

\* C8: every attempt is one limit=1 request; there are at most MAX_RETRIES of
\* them, each but the last answered by a connection or timeout error; the call
\* returns the reported total on success, 0 after MAX_RETRIES such errors, 0 at
\* once on any other error, and never raises.
C8_TotalResolver ==
    /\ pc # "raised"
    /\ Len(t_log) <= MAX_RETRIES
    /\ \A i \in DOMAIN t_log :
         /\ t_log[i].limit = 1
         /\ i < Len(t_log) => t_log[i].outcome \in Retryable
    /\ pc = "total_request" => Len(t_log) = t_attempt
    /\ pc = "total_ret" =>
         LET last == t_log[Len(t_log)].outcome IN
         /\ last = "ok" => t_ret = srv_total[cat]
         /\ last \in Retryable => Len(t_log) = MAX_RETRIES /\ t_ret = 0
         /\ last \notin Retryable \cup {"ok"} => t_ret = 0

\* The resolver gave up after MAX_RETRIES timeouts while the source holds items.
C8_Witness ==
    /\ pc = "total_ret"
    /\ Len(t_log) = MAX_RETRIES
    /\ t_log[MAX_RETRIES].outcome = "Timeout"
    /\ t_ret = 0
    /\ srv_total[cat] > 0

\* ------------------------------------------------------------ claims on the run
\* C3: a category whose expected total is 0 is never fetched: no page request is
\* issued for it and it contributes no items and no rows.
C3_ZeroTotalNotFetched ==
    \A c \in DOMAIN all_stats :
        all_stats[c].total_items = 0 =>
            /\ c \notin page_requested
            /\ all_stats[c].fetched_items = 0
            /\ \A i \in DOMAIN raw_rows : raw_rows[i].cat # c
            /\ pc \in {"request", "after_for", "fetch_ret"} => cat # c

\* The run is over: one category had total 0 although the source holds items
\* for it, and another category was fetched.
C3_Witness ==
    /\ pc = "collected"
    /\ \E c \in Cats : all_stats[c].total_items = 0 /\ available[c] > 0
    /\ page_requested # {}

\* ------------------------------------------------------------ claims on the reconciler
\* How often row r occurs in table t.
Count(t, r) == Cardinality({i \in DOMAIN t : t[i] = r})

\* The same rows, each as often (order aside).
SameRows(a, b) == \A r \in Range(a) \cup Range(b) : Count(a, r) = Count(b, r)

\* The non-null keys of a table.
Keys(t) == IdSet(WithId(t))

\* C9: after a reconciliation the persisted target holds exactly the source's
\* rows (as a multiset) and the source's keys; after a diff against a non-empty
\* previous target every written row is taken from the source, none from the
\* previous target, and the keys are
\* (keys(previous target) - delete_ids) + insert_ids.
C9_TargetConvergesToSource ==
    /\ rpc \in {"done_diff", "done_initial"} =>
         /\ SameRows(fact_view_logs_incremental, fact_view_logs)
         /\ Keys(fact_view_logs_incremental) = Keys(fact_view_logs)
    /\ rpc = "done_diff" =>
         /\ df_target # <<>>
         /\ fact_view_logs_incremental = Untag(df_combined)
         /\ \A i \in DOMAIN df_combined : df_combined[i].origin = "source"
         /\ Keys(fact_view_logs_incremental)
              = (Keys(df_target) \ delete_ids) \cup insert_ids

\* previous {A:1, B:2}, source {A:1, C:3}: insert {C}, delete {B}, common {A},
\* new target {A:1, C:3}.
C9_Witness ==
    /\ rpc = "done_diff"
    /\ df_target = <<Row("A", 1), Row("B", 2)>>
    /\ fact_view_logs = <<Row("A", 1), Row("C", 3)>>
    /\ insert_ids = {"C"}
    /\ delete_ids = {"B"}
    /\ common_ids = {"A"}
    /\ Range(fact_view_logs_incremental) = {Row("A", 1), Row("C", 3)}
    /\ Len(fact_view_logs_incremental) = 2

\* C10: in a diff, insert_ids, delete_ids and common_ids are pairwise disjoint and
\* together are the non-null keys of the source and of the previous target.
C10_KeyAccounting ==
    rpc = "done_diff" =>
        /\ insert_ids \cap delete_ids = {}
        /\ insert_ids \cap common_ids = {}
        /\ delete_ids \cap common_ids = {}
        /\ insert_ids \cup delete_ids \cup common_ids
             = Keys(fact_view_logs) \cup Keys(df_target)
        /\ NULL \notin insert_ids \cup delete_ids \cup common_ids

\* A diff with an insert, a delete and keyless rows on both sides.
C10_Witness ==
    /\ rpc = "done_diff"
    /\ insert_ids # {}
    /\ delete_ids # {}
    /\ NaId(fact_view_logs) # <<>>
    /\ NaId(df_target) # <<>>

\* C11: reconciling a snapshot against itself as the previous target gives empty
\* insert_ids and delete_ids, every key common, a new target with the input's
\* keys, and for every common key the rows the previous target held for it.
C11_Idempotent ==
    (rpc = "done_diff" /\ SameRows(df_target, fact_view_logs)) =>
        /\ insert_ids = {}
        /\ delete_ids = {}
        /\ common_ids = Keys(df_target)
        /\ Keys(fact_view_logs_incremental) = Keys(df_target)
        /\ \A k \in common_ids :
             SameRows(IsIn(fact_view_logs_incremental, {k}), IsIn(df_target, {k}))

\* A diff of a two-key snapshot against itself.
C11_Witness ==
    /\ rpc = "done_diff"
    /\ df_target = fact_view_logs
    /\ Cardinality(common_ids) = 2
    /\ SameRows(fact_view_logs_incremental, df_target)

\* C12: when the read of the previous target fails (the table is absent or the
\* read raises) or returns no rows, a call that does not raise writes the source
\* unchanged, keyless rows included, and computes no diff: no insert, delete or
\* common ids and no combined frame.
C12_InitialLoad ==
    [][(/\ rpc = "start"
        /\ rpc' # "raised"
        /\ \/ ~target_exists
           \/ Empty(fact_view_logs_incremental)
           \/ Empty(df_target'))
       => (/\ rpc' = "done_initial"
           /\ target_exists'
           /\ fact_view_logs_incremental' = fact_view_logs
           /\ NaId(fact_view_logs_incremental') = NaId(fact_view_logs)
           /\ insert_ids' = {}
           /\ delete_ids' = {}
           /\ common_ids' = {}
           /\ df_combined' = <<>>)]_vars

\* The spec's scenario with a keyless row ahead of the keyed one: no previous
\* target, the source is written as it is.
C12_Witness ==
    /\ rpc = "done_initial"
    /\ df_target = <<>>
    /\ fact_view_logs = <<Row(NULL, 1), Row("A", 1)>>
    /\ fact_view_logs_incremental = fact_view_logs
    /\ delete_ids = {}

\* C13: after a diff, for every key of both the source and the previous target
\* the new target holds exactly the source's rows for the key, each taken from
\* the source, whatever the previous target held for it.
C13_SourceOverwritesCommon ==
    rpc = "done_diff" =>
        \A k \in Keys(fact_view_logs) \cap Keys(df_target) :
            /\ IsIn(fact_view_logs_incremental, {k}) = IsIn(fact_view_logs, {k})
            /\ IsIn(fact_view_logs_incremental, {k}) # <<>>
            /\ \A i \in DOMAIN df_combined :
                 df_combined[i].subject_id = k => df_combined[i].origin = "source"

\* Key A with data 1 in the previous target and data 2 in the source, key B
\* unchanged: the new target holds A:2 and B:2.
C13_Witness ==
    /\ rpc = "done_diff"
    /\ df_target = <<Row("A", 1), Row("B", 2)>>
    /\ fact_view_logs = <<Row("A", 2), Row("B", 2)>>
    /\ fact_view_logs_incremental = <<Row("A", 2), Row("B", 2)>>

\* C14: after a diff no keyless row of the new target is taken from the previous
\* target, and the keyless rows of the new target are the keyless rows of the
\* source, each as often and in the same order.
C14_KeylessFromSourceOnly ==
    rpc = "done_diff" =>
        /\ \A i \in DOMAIN df_combined :
             df_combined[i].subject_id = NULL => df_combined[i].origin = "source"
        /\ NaId(fact_view_logs_incremental) = NaId(fact_view_logs)
        /\ Len(NaId(fact_view_logs_incremental)) = Len(NaId(fact_view_logs))

\* The previous target holds two keyless rows, the source one: the new target
\* holds the source's one.
C14_Witness ==
    /\ rpc = "done_diff"
    /\ df_target = <<Row(NULL, 1), Row(NULL, 2)>>
    /\ NaId(fact_view_logs) = <<Row(NULL, 2)>>
    /\ Len(fact_view_logs) = 2
    /\ NaId(fact_view_logs_incremental) = <<Row(NULL, 2)>>

\* Each non-null key occurs in at most one row of the table.
KeyUnique(t) ==
    \A i, j \in DOMAIN t :
        (t[i].subject_id = t[j].subject_id /\ t[i].subject_id # NULL) => i = j

\* C15: in every run of the loader, after every reconciliation, each non-null
\* subject_id occurs in at most one row of the persisted incremental target.
C15_KeyUniqueInTarget ==
    target_exists => KeyUnique(fact_view_logs_incremental)

\* The orders the rows of a table can be stored and read in.
Perms(t) == {p \in [DOMAIN t -> Range(t)] : SameRows(p, t)}

\* C16: the rows and the keys a completed reconciliation writes are a function of
\* the rows of the source and of the previous target alone: whichever path ran
\* (the read of the target may fail) and in whatever order the rows of either
\* table are processed, the written rows are those of the diff of the two tables.
C16_PureFunction ==
    [][(rpc = "start" /\ rpc' \in {"done_initial", "done_diff"})
       => \A s2 \in Perms(fact_view_logs), t2 \in Perms(fact_view_logs_incremental) :
            /\ SameRows(fact_view_logs_incremental', Untag(Combined(s2, t2)))
            /\ Keys(fact_view_logs_incremental') = Keys(Untag(Combined(s2, t2)))]_vars

\* A diff whose source lists the keys of the previous target in the opposite
\* order, one of them with new data.
C16_Witness ==
    /\ rpc = "done_diff"
    /\ df_target = <<Row("A", 1), Row("B", 2)>>
    /\ fact_view_logs = <<Row("B", 2), Row("A", 2)>>
    /\ SameRows(fact_view_logs_incremental, <<Row("A", 2), Row("B", 2)>>)

\* C17: the create-page calls are issued one per row in row order, whatever the
\* outcome of the earlier calls; every call that is rejected or raises adds one
\* to error_count, every call answered 200 one to success_count and its page
\* stays in the database; on return the two counts add up to the number of rows.
C17_OnePostPerRow ==
    /\ npc \in {"loop", "returned"} =>
         /\ Len(posts) = index
         /\ \A i \in DOMAIN posts : posts[i].row = i
         /\ success_count = Cardinality({i \in DOMAIN posts : posts[i].outcome = "200"})
         /\ error_count = Cardinality({i \in DOMAIN posts : posts[i].outcome # "200"})
         /\ \A i \in DOMAIN posts :
              posts[i].outcome = "200" => \E j \in DOMAIN notion_pages : notion_pages[j] = i
    /\ npc = "returned" =>
         /\ Len(posts) = notion_rows
         /\ success_count + error_count = notion_rows

\* Three rows: the first call raises, the second is rejected, the third succeeds.
C17_Witness ==
    /\ npc = "returned"
    /\ notion_rows = 3
    /\ posts = <<[row |-> 1, outcome |-> "raises"], [row |-> 2, outcome |-> "rejected"],
                 [row |-> 3, outcome |-> "200"]>>
    /\ success_count = 1
    /\ error_count = 2

\* ------------------------------------------------------------ claims on the session
\* C18: in a run of main() at most one session is created, every request goes
\* through it while it is open, it is not closed before main() is left, and
\* however main() is left (return, no data, exception) the session created is
\* closed and the global handle is None.
C18_OneSessionClosedOnExit ==
    /\ sessions_created <= 1
    /\ \A r \in req_sessions : r.id = 1 /\ r.open
    /\ pc # "main_done" => (closed = {} /\ main_exit = "")
    /\ pc \notin {"main_start", "main_done"} => (_session = 1 /\ session = 1)
    /\ pc = "main_done" =>
         /\ main_exit \in {"return", "no_data", "exception"}
         /\ _session = 0
         /\ closed = 1 .. sessions_created

\* main() left by an exception raised while the rows of a fetched category were
\* built, after requests for totals and pages.
C18_Witness ==
    /\ pc = "main_done"
    /\ main_exit = "exception"
    /\ page_requested # {}
    /\ req_sessions = {[id |-> 1, open |-> TRUE]}
    /\ closed = {1}
    /\ _session = 0

\* ------------------------------------------------------------ claims on HTTP errors
\* The last request of the current page was answered by an HTTP error status
\* (raise_for_status raised HTTPError).
HttpErrorLast ==
    /\ page_log # <<>>
    /\ page_log[Len(page_log)].outcome = "HTTPError"

\* C19 as stated: a page whose first request is answered by an HTTP error status
\* is skipped: the offset advances by one page width and the page counts as one
\* failed page.
C19_HttpErrorSkipsPage ==
    [][(pc = "after_for" /\ Outcomes(page_log) = <<"HTTPError">>)
       => (/\ pc' = "request"
           /\ offset' = offset + LIMIT
           /\ consecutive_failures' = consecutive_failures + 1)]_vars

\* C19 amended: an HTTP error status ends the attempts of its page at once, with
\* no sleep and no further request at that offset; the page counts as one failed
\* page; the offset then advances by one page width, unless this is the third
\* failed page in a row, in which case the fetch returns without advancing.
C19_HttpErrorNotRetried ==
    /\ [](HttpErrorLast =>
            /\ pc \in {"after_for", "fetch_ret"}
            /\ ~success
            /\ page_log[Len(page_log)].sleep = 0
            /\ page_results # <<>>
            /\ page_results[Len(page_results)] = [off |-> offset, result |-> "fail"])
    /\ [][(pc = "after_for" /\ HttpErrorLast)
           => (/\ consecutive_failures' = consecutive_failures + 1
               /\ IF consecutive_failures + 1 >= max_consecutive_failures
                    THEN pc' = "fetch_ret" /\ offset' = offset
                    ELSE /\ pc' = "request"
                         /\ offset' = offset + LIMIT
                         /\ page_log' = <<>>)]_vars

\* Three pages in a row, each answered by an HTTP error on its only request: the
\* fetch has returned with the offset still at the third page.
C19_Witness ==
    /\ pc = "fetch_ret"
    /\ Outcomes(page_log) = <<"HTTPError">>
    /\ consecutive_failures = max_consecutive_failures
    /\ [i \in DOMAIN page_results |-> page_results[i].off] = <<0, LIMIT, 2 * LIMIT>>
    /\ offset = 2 * LIMIT
    /\ n_ok = 0

\* ------------------------------------------------------------ claims on the retry ceilings
\* C20: at any offset fetch_single_category issues at most MAX_RETRIES requests,
\* whatever the outcomes (connection errors, timeouts, 429 responses) are, and
\* never requests again an offset it has finished with; fetch_category_total
\* issues at most MAX_RETRIES requests for a category.
C20_RetryCeiling ==
    /\ Len(page_log) <= MAX_RETRIES
    /\ attempt < MAX_RETRIES
    /\ pc = "request" =>
         /\ Len(page_log) = attempt
         /\ \A i \in DOMAIN page_results : page_results[i].off # offset
    /\ Len(t_log) <= MAX_RETRIES
    /\ t_attempt < MAX_RETRIES
    /\ pc = "total_request" => Len(t_log) = t_attempt

\* A page of the first category given up after a 429 response, a timeout and a
\* connection error.
C20_Witness ==
    /\ pc = "after_for"
    /\ Outcomes(page_log) = <<"429", "Timeout", "ConnectionError">>
    /\ ~success
    /\ cat = 1

\* ------------------------------------------------------------ claims on the category loop
\* The categories whose resolved total is positive.
PositiveCats == {c \in DOMAIN all_stats : all_stats[c].total_items > 0}

\* C21: no fetch raises, whatever its requests meet; page requests go through
\* the categories in enumeration order, none with a positive total left out while
\* an earlier fetch exhausted its attempts or aborted; when the category loop ends
\* every category with a positive total has had its fetch.
C21_FailedFetchDoesNotStopRun ==
    /\ pc # "raised"
    /\ pc \in {"request", "after_for", "fetch_ret"} =>
         /\ cat \in PositiveCats
         /\ \A c \in PositiveCats : c < cat => c \in page_requested
         /\ \A c \in page_requested : c <= cat
    /\ pc = "fetch_ret" => cat \in page_requested
    /\ pc = "collected" => page_requested = PositiveCats

\* The first category's fetch returned nothing although the source holds items
\* (every page failed), and the second category was fetched after it.
C21_Witness ==
    /\ pc = "collected"
    /\ all_stats[1].total_items > 0
    /\ all_stats[1].fetched_items = 0
    /\ all_stats[2].fetched_items > 0
    /\ page_requested = {1, 2}

\* ------------------------------------------------------------ claims on the item loop
\* C22: no item, whatever its defect (absent id, null or absent subject, null or
\* non-list tags, a tag entry that is not a dict, null short_summary), makes the
\* item loop raise, and when the loop ends there is one row per item.
C22_DefectsNeverFatal ==
    /\ row_pc # "raised"
    /\ row_pc = "done" => Len(analytics_rows) = Len(collections)

\* ------------------------------------------------------------ claims on the loader's errors
\* The stage of the run that met an exception, if any.
LoadStageError == load_result = "none_error"
ReconcileStageError == rpc = "raised"

\* C23 as stated: a run whose load stage or reconcile stage met an error ends
\* with the error raised to the caller of main().
C23_ErrorPropagated ==
    ((LoadStageError \/ ReconcileStageError) /\ main_result # "")
        => main_result = "raises"

\* C23 amended: an error at the load stage is caught, main() returns None
\* without raising and the reconciliation is not started; an error at the
\* reconcile stage is raised to the caller of main(); once either error has
\* happened no table is written any more in that run.
C23_ErrorEndsRun ==
    /\ [](LoadStageError => (rpc = "no_data" /\ main_result = "returns_none"))
    /\ [](main_result = "raises" <=> (ReconcileStageError /\ main_result # ""))
    /\ [][(ReconcileStageError /\ main_result = "") => main_result' = "raises"]_vars
    /\ [][(LoadStageError \/ ReconcileStageError)
           => (/\ fact_view_logs' = fact_view_logs
               /\ fact_view_logs_raw' = fact_view_logs_raw
               /\ fact_view_logs_incremental' = fact_view_logs_incremental
               /\ rpc' \in {rpc, "collect"})]_vars

\* A run with rows collected whose load stage met an exception: main() has
\* returned None and the tables are as the first run found them.
C23_Witness ==
    /\ LoadStageError
    /\ analytics_rows # <<>>
    /\ main_result = "returns_none"
    /\ rpc = "no_data"
    /\ fact_view_logs = <<>>
    /\ ~target_exists

\* ------------------------------------------------------------ claims on a run without rows
\* The collection of the run is over and it has no rows.
ZeroRowsCollected == next_cat > NumCategories /\ analytics_rows = <<>>

\* C26: a run whose collection has no rows writes nothing: the analytics table,
\* the raw table and the incremental target keep their contents, and the
\* reconciliation is never started in that run; main() returns None.
C26_ZeroRowsWriteNothing ==
    /\ [](ZeroRowsCollected => rpc \in {"collect", "no_data"})
    /\ []((ZeroRowsCollected /\ rpc = "no_data")
            => (load_result = "none_no_rows" /\ main_result = "returns_none"))
    /\ [][ZeroRowsCollected
           => (/\ fact_view_logs' = fact_view_logs
               /\ fact_view_logs_raw' = fact_view_logs_raw
               /\ fact_view_logs_incremental' = fact_view_logs_incremental
               /\ target_exists' = target_exists)]_vars

\* A second run that collected nothing, after a first run that filled the
\* three tables: they still hold the rows of the first run.
C26_Witness ==
    /\ run = 2
    /\ ZeroRowsCollected
    /\ load_result = "none_no_rows"
    /\ fact_view_logs # <<>>
    /\ fact_view_logs_raw # <<>>
    /\ fact_view_logs_incremental # <<>>

\* ------------------------------------------------------------ claims on CategoryStats
\* The fetch of category cat is under way.
Fetching == pc \in {"request", "after_for", "fetch_ret"}

\* C24: a step changes the CategoryStats of a category only while that category
\* is being fetched, the stats of every other category staying as they are; an
\* entry is created by the total resolution with its total and zeroed counters,
\* and no later step changes its total_items.
C24_OnlyOwnStatsTouched ==
    [][/\ Len(all_stats') >= Len(all_stats)
       /\ \A k \in DOMAIN all_stats :
            /\ all_stats'[k].total_items = all_stats[k].total_items
            /\ all_stats'[k] # all_stats[k] => (Fetching /\ k = cat)
       /\ Len(all_stats') > Len(all_stats) =>
            /\ pc = "total_ret"
            /\ all_stats' = Append(all_stats, CategoryStats(t_ret))]_vars

\* The second category is being fetched and has counted a page, after the
\* first one counted pages of its own.
C24_Witness ==
    /\ Fetching
    /\ cat = 2
    /\ all_stats[2].pages_fetched > 0
    /\ all_stats[1].pages_fetched > 0
    /\ all_stats[1].fetched_items # all_stats[2].fetched_items

\* C25: all through fetch_single_category fetched_items is the number of items
\* accumulated and pages_fetched the number of pages that delivered items, on
\* return as well, whatever pages were skipped; no offset has its items
\* accumulated twice.
C25_CountersMatchItems ==
    /\ stats.fetched_items = ItemCount(all_items)
    /\ stats.pages_fetched = Len(all_items)
    /\ stats.pages_fetched = Len(OffsOf(page_results, "ok"))
    /\ \A i, j \in DOMAIN all_items :
         all_items[i].off = all_items[j].off => i = j
    /\ \A i \in DOMAIN all_items : all_items[i].n \in 1 .. LIMIT

\* A fetch that returned a short last page after a page it had to skip.
C25_Witness ==
    /\ FetchReturned
    /\ \E i, j \in DOMAIN page_results :
         /\ i < j
         /\ page_results[i].result = "fail"
         /\ page_results[j].result = "ok"
    /\ stats.fetched_items > 0
    /\ stats.fetched_items < stats.pages_fetched * LIMIT

====
